---------------------------- MODULE Spec2Model ----------------------------
(***************************************************************************)
(* regelwerk: the rule engine (handleMqtt, handleDeviceEvent,              *)
(* handleDeviceChangedEvent, handleTimer), the named timers it keeps       *)
(* (AddTimer, AddTimerWithExpiry, StartTimer, StopTimer, DestroyTimer,     *)
(* mkTimerFunc) and the two mutexes (regelwerk.mu, regelwerk.timersMu).    *)
(*                                                                         *)
(* One goroutine delivers MQTT reports (the handler, thread H).  Every     *)
(* time.AfterFunc timer that elapses runs its function in a goroutine of   *)
(* its own (the callbacks, threads <<id, "t">> and <<id, "exp">>).  Every  *)
(* `go r.setSwitchState("ON")` is a goroutine too.  Durations are          *)
(* abstracted: an armed timer may elapse at any moment.                    *)
(*                                                                         *)
(* JSON values are written as strings: "true" and "false" are the JSON     *)
(* booleans, "ON" and "OFF" are JSON strings; KindOf gives the dynamic     *)
(* type reflect.TypeOf sees.                                               *)
(***************************************************************************)
EXTENDS Integers, Sequences, FiniteSets

\* Bounds of the model.
MaxReports == 3
HistLen == 2
\* The calendar years julianDay is applied to.
FirstYear == 2019
LastYear == 2024

Devices == {"contact", "motion", "switch"}
Names == {"contact", "motion"}
Kinds == {"t", "exp"}

TmIds == 1..MaxReports
NoTimer == 0

Missing == "<missing>"
Undecodable == "<undecodable>"

H == <<0, "h">>
NoThread == <<0, "none">>

VARIABLES
    state,      \* device.state, by device id
    timers,     \* regelwerk.timers: name -> instance id, NoTimer when absent
    nextTm,     \* the id the next &timer{} gets
    tm,         \* the timer instances: name, fired latch, t and expT
    cb,         \* where each instance's primary / expiry callback goroutine is
    mu,         \* holder of regelwerk.mu
    timersMu,   \* holder of regelwerk.timersMu
    hpc,        \* where the handler goroutine is
    cur,        \* the report the handler is handling
    changed,    \* DecodePayload's changed
    t2,         \* handleDeviceChangedEvent's t2 (StopTimer("motion"))
    added,      \* AddTimerWithExpiry's tm (AddTimer's result)
    pendingOn,  \* `go r.setSwitchState("ON")` goroutines that have not published yet
    cmds,       \* the switch commands published, in order
    nreports,   \* reports received so far
    hist,       \* the reports received, while there are at most HistLen of them
    pre,        \* history: timers and the device's state when the handler took regelwerk.mu
    onSpawned,  \* history: ON goroutines the current handler started
    touched,    \* history: the current handler created/started/stopped/destroyed a Timer
    overridden, \* history: the instances a manual override destroyed
    lastUpdated, \* device.lastUpdated, by device id
    calc        \* the Dusk Oracle and Solar Calculator: inputs, cache and result

vars == <<state, timers, nextTm, tm, cb, mu, timersMu, hpc, cur, changed, t2,
          added, pendingOn, cmds, nreports, hist, pre, onSpawned, touched,
          overridden, calc, lastUpdated>>

hvars == <<hpc, cur, changed, t2, added, pre, onSpawned, touched>>

-----------------------------------------------------------------------------
(* Values and reports *)

KindOf(v) == IF v \in {"true", "false"} THEN "bool" ELSE "string"

Report(d, a, act, dk) == [dev |-> d, attr |-> a, action |-> act, dusk |-> dk]

NoReport == Report("", Missing, "", FALSE)

\* The payloads zigbee2mqtt can deliver on a registered topic.  dusk is what
\* NowIsDusk answers if this report's handler asks.
Reports ==
    {Report("contact", "false", "", dk) : dk \in BOOLEAN}
    \cup {Report("contact", a, "", FALSE) : a \in {"true", "ON", Missing, Undecodable}}
    \cup {Report("motion", "true", "", dk) : dk \in BOOLEAN}
    \cup {Report("motion", a, "", FALSE) : a \in {"false", "ON", Missing, Undecodable}}
    \cup {Report("switch", a, act, FALSE) :
            a \in {"ON", "OFF", "true", Missing}, act \in {"", "single_right"}}
    \cup {Report("switch", Undecodable, "", FALSE)}

\* &timer{}: the latch unset, no countdown running.  runs and spared are history:
\* how often handleTimer ran for the instance, and whether another instance's
\* self-removal found this one registered under its name and left it there.
NewTimer(name) ==
    [name |-> name, fired |-> 0, t |-> "stopped", expT |-> "nil", runs |-> 0,
     spared |-> FALSE]


-----------------------------------------------------------------------------
(* Switch commands *)

\* device.SendNewState publishes the new state on the switch's set topic, in
\* the calling goroutine.  `locked` records whether that goroutine holds
\* regelwerk.mu while it publishes; `tm` is the Timer instance the command
\* belongs to (the session an ON opens, the instance whose callback sends OFF);
\* `late` records whether a manual override had destroyed that instance before.
SendNewState(st, self, id) ==
    cmds' = Append(cmds, [state |-> st, locked |-> (mu = self), tm |-> id,
                          late |-> (id \in overridden)])

setSwitchState(st, self, id) == SendNewState(st, self, id)

\* The goroutine of `go r.setSwitchState("ON")`.
SendOn(id) ==
    /\ id \in pendingOn
    /\ pendingOn' = pendingOn \ {id}
    /\ setSwitchState("ON", <<id, "on">>, id)
    /\ UNCHANGED <<state, timers, nextTm, tm, cb, mu, timersMu, hvars, nreports, hist, overridden, calc, lastUpdated>>

-----------------------------------------------------------------------------
(* Timer Manager: the bodies of the registry operations, run under timersMu *)

\* Variant of AddTimer: an existing Timer of the name is overwritten.
AddTimerOverwrite(name) ==
    /\ nextTm' = nextTm + 1
    /\ tm' = [tm EXCEPT ![nextTm] = NewTimer(name)]
    /\ timers' = [timers EXCEPT ![name] = nextTm]

\* AddTimer: a new dormant instance; registered unless the name is taken.
AddTimerRet(name) == IF timers[name] = NoTimer THEN nextTm ELSE NoTimer

AddTimer(name) ==
    /\ nextTm' = nextTm + 1
    /\ tm' = [tm EXCEPT ![nextTm] = NewTimer(name)]
    /\ timers' = IF timers[name] = NoTimer
                 THEN [timers EXCEPT ![name] = nextTm]
                 ELSE timers

\* Variant of AttachExpiry: no expiry timer is scheduled.
AttachExpiryNone(id) == UNCHANGED tm

\* AddTimerWithExpiry, after AddTimer returned id: tm.expT = time.AfterFunc(...).
AttachExpiry(id) ==
    tm' = IF id # NoTimer THEN [tm EXCEPT ![id].expT = "armed"] ELSE tm

DestroyTimerRet(name) == timers[name] # NoTimer

DestroyTimer(name) ==
    /\ tm' = IF timers[name] # NoTimer
             THEN [tm EXCEPT ![timers[name]].t = "stopped",
                             ![timers[name]].expT = IF @ = "nil" THEN "nil" ELSE "stopped"]
             ELSE tm
    /\ timers' = [timers EXCEPT ![name] = NoTimer]
    /\ UNCHANGED nextTm

StartTimerRet(name) == timers[name] # NoTimer

\* Variant of StartTimer: the Timer is looked up but t.Reset is not called.
StartTimerNoReset(name) == UNCHANGED <<tm, timers, nextTm>>

StartTimer(name) ==
    /\ tm' = IF timers[name] # NoTimer
             THEN [tm EXCEPT ![timers[name]].t = "armed"]
             ELSE tm
    /\ UNCHANGED <<timers, nextTm>>

StopTimerRet(name) == timers[name]

\* Variant of StopTimer: the Timer is looked up but t.Stop is not called.
StopTimerLookupOnly(name) == UNCHANGED <<tm, timers, nextTm>>

\* Variant of StopTimer: the expiry timer is stopped as well.
StopTimerBoth(name) ==
    /\ tm' = IF timers[name] # NoTimer
             THEN [tm EXCEPT ![timers[name]].t = "stopped",
                             ![timers[name]].expT = IF @ = "nil" THEN "nil" ELSE "stopped"]
             ELSE tm
    /\ UNCHANGED <<timers, nextTm>>

StopTimer(name) ==
    /\ tm' = IF timers[name] # NoTimer
             THEN [tm EXCEPT ![timers[name]].t = "stopped"]
             ELSE tm
    /\ UNCHANGED <<timers, nextTm>>

-----------------------------------------------------------------------------
(* Timers elapsing, and the function mkTimerFunc makes *)

\* tm.t elapses (the timer is no longer running, as after Stop): the runtime
\* starts the function in a goroutine of its own.
\* A goroutine started while the instance's latch is already taken, or while
\* another one of the same kind has not reached the latch yet, can only lose
\* the CompareAndSwap and return, so it is not kept.
FireT(id) ==
    /\ id < nextTm
    /\ tm[id].t = "armed"
    /\ tm' = [tm EXCEPT ![id].t = "stopped"]
    /\ cb' = IF cb[id]["t"] = "idle" THEN [cb EXCEPT ![id]["t"] = "start"] ELSE cb
    /\ UNCHANGED <<state, timers, nextTm, mu, timersMu, hvars, pendingOn, cmds,
                   nreports, hist, overridden, calc, lastUpdated>>

\* tm.expT elapses.
FireExp(id) ==
    /\ id < nextTm
    /\ tm[id].expT = "armed"
    /\ tm' = [tm EXCEPT ![id].expT = "stopped"]
    /\ cb' = IF cb[id]["exp"] = "idle" THEN [cb EXCEPT ![id]["exp"] = "start"] ELSE cb
    /\ UNCHANGED <<state, timers, nextTm, mu, timersMu, hvars, pendingOn, cmds,
                   nreports, hist, overridden, calc, lastUpdated>>

\* Variant of CompareAndSwap: the latch is not consulted.
CompareAndSwapAlways(id) == TRUE

\* tm.fired.CompareAndSwap(0, 1): whether it swaps.
CompareAndSwap(id) == tm[id].fired = 0

CbCAS(id, k) ==
    /\ cb[id][k] = "start"
    /\ IF CompareAndSwap(id)
       THEN /\ tm' = [tm EXCEPT ![id].fired = 1]
            /\ cb' = [cb EXCEPT ![id][k] = "lock"]
       ELSE /\ cb' = [cb EXCEPT ![id][k] = "lost"]
            /\ UNCHANGED tm
    /\ UNCHANGED <<state, timers, nextTm, mu, timersMu, hvars, pendingOn, cmds,
                   nreports, hist, overridden, calc, lastUpdated>>

\* Variant of CbLock: the callback takes timersMu first and asks for
\* regelwerk.mu while it holds it.
CbLockInverted(id, k) ==
    /\ cb[id][k] = "lock"
    /\ IF timersMu # <<id, k>>
       THEN /\ timersMu = NoThread
            /\ timersMu' = <<id, k>>
            /\ UNCHANGED <<mu, cb>>
       ELSE /\ mu = NoThread
            /\ mu' = <<id, k>>
            /\ cb' = [cb EXCEPT ![id][k] = "handle"]
            /\ UNCHANGED timersMu
    /\ UNCHANGED <<state, timers, nextTm, tm, hvars, pendingOn, cmds, nreports, hist, overridden, calc, lastUpdated>>

\* r.Lock()
CbLock(id, k) ==
    /\ cb[id][k] = "lock"
    /\ mu = NoThread
    /\ mu' = <<id, k>>
    /\ cb' = [cb EXCEPT ![id][k] = "handle"]
    /\ UNCHANGED <<state, timers, nextTm, tm, timersMu, hvars, pendingOn, cmds,
                   nreports, hist, overridden, calc, lastUpdated>>

\* Variant of handleTimer: the motion state is left as it is after an expiry.
handleTimerNoReset(name, expired, self, id) ==
    /\ setSwitchState("OFF", self, id)
    /\ UNCHANGED state

\* The Rule Engine's on-timer-fire handler.
handleTimer(name, expired, self, id) ==
    IF name \in {"contact", "motion"}
    THEN /\ setSwitchState("OFF", self, id)
         /\ state' = IF name = "motion" /\ expired
                     THEN [state EXCEPT !["motion"] = "false"]
                     ELSE state
    ELSE UNCHANGED <<cmds, state>>

\* r.handleTimer(name, expired); r.Unlock()
CbHandle(id, k) ==
    /\ cb[id][k] = "handle"
    /\ handleTimer(tm[id].name, k = "exp", <<id, k>>, id)
    /\ tm' = [tm EXCEPT ![id].runs = @ + 1]
    /\ mu' = NoThread
    /\ cb' = [cb EXCEPT ![id][k] = "tmlock"]
    /\ UNCHANGED <<timers, nextTm, timersMu, hvars, pendingOn, nreports, hist, overridden, calc, lastUpdated>>

\* r.timersMu.Lock()
CbTmLock(id, k) ==
    /\ cb[id][k] = "tmlock"
    /\ timersMu = NoThread
    /\ timersMu' = <<id, k>>
    /\ cb' = [cb EXCEPT ![id][k] = "remove"]
    /\ UNCHANGED <<state, timers, nextTm, tm, mu, hvars, pendingOn, cmds,
                   nreports, hist, overridden, calc, lastUpdated>>

\* Variant of StillRegistered: whatever is registered under the name is removed.
StillRegisteredAny(id) == timers[tm[id].name] # NoTimer

\* if r.timers[name] == tm
StillRegistered(id) == timers[tm[id].name] = id

\* the self-removal, and the deferred r.timersMu.Unlock()
CbRemove(id, k) ==
    /\ cb[id][k] = "remove"
    /\ timers' = IF StillRegistered(id)
                 THEN [timers EXCEPT ![tm[id].name] = NoTimer]
                 ELSE timers
    /\ tm' = IF timers[tm[id].name] \notin {id, NoTimer}
             THEN [tm EXCEPT ![timers[tm[id].name]].spared = TRUE]
             ELSE tm
    /\ timersMu' = NoThread
    /\ cb' = [cb EXCEPT ![id][k] = "done"]
    /\ UNCHANGED <<state, nextTm, mu, hvars, pendingOn, cmds, nreports, hist, overridden, calc, lastUpdated>>

-----------------------------------------------------------------------------
(* Device Registry: device.DecodePayload *)

\* Variant of DecodeErr: a payload without the state attribute is no error.
DecodeErrUndecodableOnly(rep) == rep.attr = Undecodable

\* decodePayload fails, or the payload lacks the device's state attribute.
DecodeErr(rep) == rep.attr \in {Missing, Undecodable}

\* Variant of DecodeChanged: the type is not compared, only the value.
DecodeChangedValueOnly(d, attr) == attr # state[d]

\* Variant of DecodeChanged: the value is not compared, only its type.
DecodeChangedTypeOnly(d, attr) == KindOf(attr) = KindOf(state[d])

\* attr != d.state && reflect.TypeOf(attr) == reflect.TypeOf(d.state)
DecodeChanged(d, attr) == attr # state[d] /\ KindOf(attr) = KindOf(state[d])

\* getMapValue(payload, "action")
getMapValue(rep) == rep.action

\* NowIsDusk, as the environment decides it for the report being handled.
NowIsDusk == cur.dusk

\* r.LookupDevice("switch").state != "ON" && r.NowIsDusk()
ShouldTurnOn == state["switch"] # "ON" /\ NowIsDusk

-----------------------------------------------------------------------------
(* Rule Engine: handleMqtt and the handlers it calls, statement by statement *)

CallSites == {"evDC", "evDM", "coSC", "coSM", "coDM", "coAdd", "ccStart",
              "maSM", "maAdd", "miStart",
              "tmAdd", "tmAddExp", "tmStart", "tmStop", "tmDestroy"}

\* Where handleDeviceChangedEvent starts for device d in state st; "unlock"
\* when handleMqtt does not call it.
ChangedEntry(d, st, ch) ==
    IF ~ch THEN "unlock"
    ELSE IF d = "contact" THEN (IF st # "true" THEN "coSC" ELSE "ccStart")
    ELSE IF d = "motion" THEN (IF st = "true" THEN "maSM" ELSE "miStart")
    ELSE "unlock"

EmptyRegistry == [n \in Names |-> NoTimer]

NoPre == [timers |-> EmptyRegistry, state |-> ""]

\* A report arrives on a registered device's topic.
Receive(rep) ==
    /\ hpc = "idle"
    /\ nreports < MaxReports
    /\ hpc' = "lock"
    /\ cur' = rep
    /\ nreports' = nreports + 1
    /\ hist' = IF nreports < HistLen THEN Append(hist, rep) ELSE << >>
    /\ UNCHANGED <<state, timers, nextTm, tm, cb, mu, timersMu, changed, t2, added,
                   pendingOn, cmds, pre, onSpawned, touched, overridden, calc, lastUpdated>>

\* r.Lock()
HLock ==
    /\ hpc = "lock"
    /\ mu = NoThread
    /\ mu' = H
    /\ hpc' = "decode"
    /\ pre' = [timers |-> timers, state |-> state[cur.dev]]
    /\ UNCHANGED <<state, timers, nextTm, tm, cb, timersMu, cur, changed, t2, added,
                   pendingOn, cmds, nreports, hist, overridden, calc, lastUpdated, onSpawned, touched>>

\* dev.DecodePayload(msg), and handleDeviceEvent up to its first registry call.
HDecode ==
    /\ hpc = "decode"
    /\ IF DecodeErr(cur)
       THEN /\ hpc' = "unlock"
            /\ UNCHANGED <<state, changed>>
       ELSE /\ changed' = DecodeChanged(cur.dev, cur.attr)
            /\ state' = IF DecodeChanged(cur.dev, cur.attr)
                        THEN [state EXCEPT ![cur.dev] = cur.attr]
                        ELSE state
            /\ hpc' = IF cur.dev = "switch" /\ getMapValue(cur) = "single_right"
                      THEN "evDC"
                      ELSE ChangedEntry(cur.dev, state'[cur.dev], changed')
    /\ UNCHANGED <<timers, nextTm, tm, cb, mu, timersMu, cur, t2, added, pendingOn,
                   cmds, nreports, hist, overridden, calc, lastUpdated, pre, onSpawned, touched>>

\* r.timersMu.Lock() at the start of a registry operation
HAcquire ==
    /\ hpc \in CallSites
    /\ timersMu = NoThread
    /\ timersMu' = H
    /\ UNCHANGED <<state, timers, nextTm, tm, cb, mu, hvars, pendingOn, cmds,
                   nreports, hist, overridden, calc, lastUpdated>>

\* handleDeviceEvent: r.DestroyTimer("contact") || ...
HEvDestroyContact ==
    /\ hpc = "evDC" /\ timersMu = H
    /\ DestroyTimer("contact")
    /\ touched' = (touched \/ DestroyTimerRet("contact"))
    /\ overridden' = overridden \cup ({timers["contact"]} \ {NoTimer})
    /\ hpc' = IF DestroyTimerRet("contact")
              THEN ChangedEntry(cur.dev, state[cur.dev], changed)
              ELSE "evDM"
    /\ timersMu' = NoThread
    /\ UNCHANGED <<state, cb, mu, cur, changed, t2, added, pendingOn, cmds, nreports,
                   hist, calc, lastUpdated, pre, onSpawned>>

\* handleDeviceEvent: ... || r.DestroyTimer("motion")
HEvDestroyMotion ==
    /\ hpc = "evDM" /\ timersMu = H
    /\ DestroyTimer("motion")
    /\ touched' = (touched \/ DestroyTimerRet("motion"))
    /\ overridden' = overridden \cup ({timers["motion"]} \ {NoTimer})
    /\ hpc' = ChangedEntry(cur.dev, state[cur.dev], changed)
    /\ timersMu' = NoThread
    /\ UNCHANGED <<state, cb, mu, cur, changed, t2, added, pendingOn, cmds, nreports,
                   hist, calc, lastUpdated, pre, onSpawned>>

\* contact opened: r.StopTimer("contact") != nil
HCoStopContact ==
    /\ hpc = "coSC" /\ timersMu = H
    /\ StopTimer("contact")
    /\ touched' = (touched \/ StopTimerRet("contact") # NoTimer)
    /\ hpc' = IF StopTimerRet("contact") # NoTimer THEN "unlock" ELSE "coSM"
    /\ timersMu' = NoThread
    /\ UNCHANGED <<state, cb, mu, cur, changed, t2, added, pendingOn, cmds, nreports,
                   hist, overridden, calc, lastUpdated, pre, onSpawned>>

\* contact opened: t2 := r.StopTimer("motion"); t2 != nil || (switch not ON && dusk)
HCoStopMotion ==
    /\ hpc = "coSM" /\ timersMu = H
    /\ StopTimer("motion")
    /\ t2' = StopTimerRet("motion")
    /\ touched' = (touched \/ StopTimerRet("motion") # NoTimer)
    /\ hpc' = IF StopTimerRet("motion") # NoTimer THEN "coDM"
              ELSE IF ShouldTurnOn THEN "coAdd"
              ELSE "unlock"
    /\ timersMu' = NoThread
    /\ UNCHANGED <<state, cb, mu, cur, changed, added, pendingOn, cmds, nreports,
                   hist, overridden, calc, lastUpdated, pre, onSpawned>>

\* converting motion->contact session: r.DestroyTimer("motion")
HCoDestroyMotion ==
    /\ hpc = "coDM" /\ timersMu = H
    /\ DestroyTimer("motion")
    /\ touched' = (touched \/ DestroyTimerRet("motion"))
    /\ hpc' = "coAdd"
    /\ timersMu' = NoThread
    /\ UNCHANGED <<state, cb, mu, cur, changed, t2, added, pendingOn, cmds, nreports,
                   hist, overridden, calc, lastUpdated, pre, onSpawned>>

\* r.AddTimer("contact"); go r.setSwitchState("ON")
HCoAdd ==
    /\ hpc = "coAdd" /\ timersMu = H
    /\ AddTimer("contact")
    /\ touched' = (touched \/ AddTimerRet("contact") # NoTimer)
    /\ pendingOn' = pendingOn \cup {nextTm}
    /\ onSpawned' = onSpawned + 1
    /\ hpc' = "unlock"
    /\ timersMu' = NoThread
    /\ UNCHANGED <<state, cb, mu, cur, changed, t2, added, cmds, nreports, hist, overridden, calc, lastUpdated,
                   pre>>

\* contact closed: r.StartTimer("contact", r.offDelay)
HCcStart ==
    /\ hpc = "ccStart" /\ timersMu = H
    /\ StartTimer("contact")
    /\ touched' = (touched \/ StartTimerRet("contact"))
    /\ hpc' = "unlock"
    /\ timersMu' = NoThread
    /\ UNCHANGED <<state, cb, mu, cur, changed, t2, added, pendingOn, cmds, nreports,
                   hist, overridden, calc, lastUpdated, pre, onSpawned>>

\* motion detected: r.StopTimer("motion") != nil, else switch not ON && dusk
HMaStop ==
    /\ hpc = "maSM" /\ timersMu = H
    /\ StopTimer("motion")
    /\ touched' = (touched \/ StopTimerRet("motion") # NoTimer)
    /\ hpc' = IF StopTimerRet("motion") # NoTimer THEN "unlock"
              ELSE IF ShouldTurnOn THEN "maAdd"
              ELSE "unlock"
    /\ timersMu' = NoThread
    /\ UNCHANGED <<state, cb, mu, cur, changed, t2, added, pendingOn, cmds, nreports,
                   hist, overridden, calc, lastUpdated, pre, onSpawned>>

\* AddTimerWithExpiry: tm := r.AddTimer("motion")
HMaAdd ==
    /\ hpc = "maAdd" /\ timersMu = H
    /\ AddTimer("motion")
    /\ added' = AddTimerRet("motion")
    /\ touched' = (touched \/ AddTimerRet("motion") # NoTimer)
    /\ hpc' = "maExp"
    /\ timersMu' = NoThread
    /\ UNCHANGED <<state, cb, mu, cur, changed, t2, pendingOn, cmds, nreports, hist, overridden, calc, lastUpdated,
                   pre, onSpawned>>

\* AddTimerWithExpiry: the expiry timer; then go r.setSwitchState("ON")
HMaExpiry ==
    /\ hpc = "maExp"
    /\ AttachExpiry(added)
    /\ pendingOn' = pendingOn \cup {nextTm - 1}
    /\ onSpawned' = onSpawned + 1
    /\ hpc' = "unlock"
    /\ UNCHANGED <<state, timers, nextTm, cb, mu, timersMu, cur, changed, t2, added,
                   cmds, nreports, hist, overridden, calc, lastUpdated, pre, touched>>

\* no more motion: r.StartTimer("motion", r.motionOffDelay)
HMiStart ==
    /\ hpc = "miStart" /\ timersMu = H
    /\ StartTimer("motion")
    /\ touched' = (touched \/ StartTimerRet("motion"))
    /\ hpc' = "unlock"
    /\ timersMu' = NoThread
    /\ UNCHANGED <<state, cb, mu, cur, changed, t2, added, pendingOn, cmds, nreports,
                   hist, overridden, calc, lastUpdated, pre, onSpawned>>

\* the deferred r.Unlock(); handleMqtt returns
HUnlock ==
    /\ hpc = "unlock"
    /\ mu' = NoThread
    /\ hpc' = "idle"
    /\ cur' = NoReport
    /\ changed' = FALSE
    /\ t2' = NoTimer
    /\ added' = NoTimer
    /\ pre' = NoPre
    /\ onSpawned' = 0
    /\ touched' = FALSE
    /\ UNCHANGED <<state, timers, nextTm, tm, cb, timersMu, pendingOn, cmds,
                   nreports, hist, overridden, calc, lastUpdated>>

-----------------------------------------------------------------------------
(* The program *)

\* The zero time.Time, the value of a device's lastUpdated that main leaves unset.
\* The instant of a report is its number (nreports), 1 for the first.
ZeroTime == 0

\* No Dusk Oracle call has been made.
NoCalc == [op |-> "none"]

\* main: the registry is empty, the contact is closed, the switch is OFF.
InitDevices == [contact |-> "true", switch |-> "OFF"]

\* The motion device: a boolean state, no motion at start.
InitMotion == "false"

\* The regelwerk struct and the goroutines, as main leaves them.
InitRegelwerk ==
    /\ state = [d \in Devices |-> IF d = "motion" THEN InitMotion ELSE InitDevices[d]]
    /\ timers = EmptyRegistry
    /\ nextTm = 1
    /\ tm = [i \in TmIds |-> NewTimer("")]
    /\ cb = [i \in TmIds |-> [k \in Kinds |-> "idle"]]
    /\ mu = NoThread
    /\ timersMu = NoThread
    /\ hpc = "idle"
    /\ cur = NoReport
    /\ changed = FALSE
    /\ t2 = NoTimer
    /\ added = NoTimer
    /\ pendingOn = {}
    /\ cmds = << >>
    /\ nreports = 0
    /\ hist = << >>
    /\ pre = NoPre
    /\ onSpawned = 0
    /\ touched = FALSE
    /\ overridden = {}
    /\ lastUpdated = [d \in Devices |-> ZeroTime]

Init == InitRegelwerk /\ calc = NoCalc

Handler ==
    \/ HLock \/ HDecode \/ HAcquire
    \/ HEvDestroyContact \/ HEvDestroyMotion
    \/ HCoStopContact \/ HCoStopMotion \/ HCoDestroyMotion \/ HCoAdd
    \/ HCcStart
    \/ HMaStop \/ HMaAdd \/ HMaExpiry
    \/ HMiStart
    \/ HUnlock

Callback(id, k) ==
    \/ CbCAS(id, k) \/ CbLock(id, k) \/ CbHandle(id, k)
    \/ CbTmLock(id, k) \/ CbRemove(id, k)

Next ==
    \/ \E rep \in Reports : Receive(rep)
    \/ Handler
    \/ \E id \in TmIds : FireT(id) \/ FireExp(id) \/ SendOn(id)
    \/ \E id \in TmIds, k \in Kinds : Callback(id, k)

Spec == Init /\ [][Next]_vars

\* Every step but the arrival of a report.
Progress ==
    \/ Handler
    \/ \E id \in TmIds : FireT(id) \/ FireExp(id) \/ SendOn(id)
    \/ \E id \in TmIds, k \in Kinds : Callback(id, k)

\* The Go runtime runs every runnable goroutine, hands a released sync.Mutex
\* to a goroutine waiting for it, and lets an armed timer elapse; so the
\* program does not stop while one of these steps is possible.  Reports arrive
\* as the environment pleases.
Fairness == WF_vars(Progress)

FairSpec == Init /\ [][Next]_vars /\ Fairness

-----------------------------------------------------------------------------
(* The Timer Manager on its own: a goroutine calls its operations in any      *)
(* order, for any name, while the timers elapse and their callbacks run.      *)

TMOps == {"tmAdd", "tmAddExp", "tmStart", "tmStop", "tmDestroy"}

\* The goroutine calls operation op for name; cur.dev holds the name.
TMCall(op, name) ==
    /\ hpc = "idle"
    /\ nreports < MaxReports
    /\ hpc' = op
    /\ cur' = Report(name, Missing, "", FALSE)
    /\ added' = NoTimer
    /\ nreports' = nreports + 1
    /\ UNCHANGED <<state, timers, nextTm, tm, cb, mu, timersMu, changed, t2,
                   pendingOn, cmds, hist, overridden, calc, lastUpdated, pre, onSpawned, touched>>

\* r.AddTimer(name)
TMAdd ==
    /\ hpc = "tmAdd" /\ timersMu = H
    /\ AddTimer(cur.dev)
    /\ added' = AddTimerRet(cur.dev)
    /\ hpc' = "idle"
    /\ timersMu' = NoThread
    /\ UNCHANGED <<state, cb, mu, cur, changed, t2, pendingOn, cmds, nreports, hist, overridden, calc, lastUpdated,
                   pre, onSpawned, touched>>

\* r.AddTimerWithExpiry(name, expiry): tm := r.AddTimer(name)
TMAddExp ==
    /\ hpc = "tmAddExp" /\ timersMu = H
    /\ AddTimer(cur.dev)
    /\ added' = AddTimerRet(cur.dev)
    /\ hpc' = "tmAttach"
    /\ timersMu' = NoThread
    /\ UNCHANGED <<state, cb, mu, cur, changed, t2, pendingOn, cmds, nreports, hist, overridden, calc, lastUpdated,
                   pre, onSpawned, touched>>

\* r.AddTimerWithExpiry(name, expiry): if tm != nil, the expiry timer
TMAttach ==
    /\ hpc = "tmAttach"
    /\ AttachExpiry(added)
    /\ hpc' = "idle"
    /\ UNCHANGED <<state, timers, nextTm, cb, mu, timersMu, cur, changed, t2, added,
                   pendingOn, cmds, nreports, hist, overridden, calc, lastUpdated, pre, onSpawned, touched>>

\* r.StartTimer(name, dur)
TMStart ==
    /\ hpc = "tmStart" /\ timersMu = H
    /\ StartTimer(cur.dev)
    /\ hpc' = "idle"
    /\ timersMu' = NoThread
    /\ UNCHANGED <<state, cb, mu, cur, changed, t2, added, pendingOn, cmds, nreports,
                   hist, overridden, calc, lastUpdated, pre, onSpawned, touched>>

\* r.StopTimer(name)
TMStop ==
    /\ hpc = "tmStop" /\ timersMu = H
    /\ StopTimer(cur.dev)
    /\ t2' = StopTimerRet(cur.dev)
    /\ hpc' = "idle"
    /\ timersMu' = NoThread
    /\ UNCHANGED <<state, cb, mu, cur, changed, added, pendingOn, cmds, nreports,
                   hist, overridden, calc, lastUpdated, pre, onSpawned, touched>>

\* r.DestroyTimer(name)
TMDestroy ==
    /\ hpc = "tmDestroy" /\ timersMu = H
    /\ DestroyTimer(cur.dev)
    /\ hpc' = "idle"
    /\ timersMu' = NoThread
    /\ UNCHANGED <<state, cb, mu, cur, changed, t2, added, pendingOn, cmds, nreports,
                   hist, overridden, calc, lastUpdated, pre, onSpawned, touched>>

NextTM ==
    \/ \E op \in TMOps, name \in Names : TMCall(op, name)
    \/ HAcquire
    \/ TMAdd \/ TMAddExp \/ TMAttach \/ TMStart \/ TMStop \/ TMDestroy
    \/ \E id \in TmIds : FireT(id) \/ FireExp(id)
    \/ \E id \in TmIds, k \in Kinds : Callback(id, k)

SpecTM == Init /\ [][NextTM]_vars

-----------------------------------------------------------------------------
(* Solar Calculator (sun.go) and Dusk Oracle (NowIsDusk)                     *)
(*                                                                           *)
(* float64 values are kept in fixed point.  A Julian day is kept doubled (it *)
(* ends in .5); angles are whole degrees, cosines and the argument of Acos   *)
(* are in thousandths; times are whole minutes, instants are minutes since   *)
(* 0h UTC of 1 January of FirstYear.  The local time zone is UTC.            *)

pvars == <<state, timers, nextTm, tm, cb, mu, timersMu, hpc, cur, changed, t2,
           added, pendingOn, cmds, nreports, hist, pre, onSpawned, touched,
           overridden, lastUpdated>>

\* time.Date normalises; these are the dates it leaves as they are.
IsLeap(y) == (y % 4 = 0 /\ y % 100 # 0) \/ y % 400 = 0

DaysIn(y, m) ==
    IF m = 2 THEN (IF IsLeap(y) THEN 29 ELSE 28)
    ELSE IF m \in {4, 6, 9, 11} THEN 30 ELSE 31

Dates == {dt \in (FirstYear..LastYear) \X (1..12) \X (1..31) : dt[3] <= DaysIn(dt[1], dt[2])}

\* The calendar day after dt.
NextDate(dt) ==
    IF dt[3] < DaysIn(dt[1], dt[2]) THEN <<dt[1], dt[2], dt[3] + 1>>
    ELSE IF dt[2] < 12 THEN <<dt[1], dt[2] + 1, 1>>
    ELSE <<dt[1] + 1, 1, 1>>

\* Variant of julianDay: January and February are not moved to the year before.
julianDayNoShift(y, m, d) ==
    LET A == y \div 100
        B == 2 - A + (A \div 4)
    IN  2 * ((1461 * (y + 4716)) \div 4 + (306001 * (m + 1)) \div 10000 + d + B) - 3049

\* julianDay, doubled.  365.25 * float64(year + 4716) is exact in float64;
\* 30.6001 * float64(month + 1) is at least 0.0004 above a whole number for every
\* month + 1 in 4..14, so its Floor is that of the exact product; the sum is
\* a multiple of 0.5 below 2^53 and exact.
julianDay(y, m, d) ==
    LET year == IF m <= 2 THEN y - 1 ELSE y
        month == IF m <= 2 THEN m + 12 ELSE m
        A == year \div 100
        B == 2 - A + (A \div 4)
    IN  2 * ((1461 * (year + 4716)) \div 4 + (306001 * (month + 1)) \div 10000 + d + B)
          - 3049

\* 0h UTC of dt: time.Date(date.Year(), date.Month(), date.Day(), 0, 0, 0, 0, time.UTC)
Midnight(dt) == ((julianDay(dt[1], dt[2], dt[3]) - julianDay(FirstYear, 1, 1)) \div 2) * 1440

\* math.Cos of whole degrees 0..90, in thousandths.
CosTab ==
    << 1000, 1000, 999, 999, 998, 996, 995, 993, 990, 988,
       985, 982, 978, 974, 970, 966, 961, 956, 951, 946,
       940, 934, 927, 921, 914, 906, 899, 891, 883, 875,
       866, 857, 848, 839, 829, 819, 809, 799, 788, 777,
       766, 755, 743, 731, 719, 707, 695, 682, 669, 656,
       643, 629, 616, 602, 588, 574, 559, 545, 530, 515,
       500, 485, 469, 454, 438, 423, 407, 391, 375, 358,
       342, 326, 309, 292, 276, 259, 242, 225, 208, 191,
       174, 156, 139, 122, 105, 87, 70, 52, 35, 17, 0 >>

Cos(deg) ==
    LET a == IF deg < 0 THEN 0 - deg ELSE deg
    IN  IF a <= 90 THEN CosTab[a + 1] ELSE 0 - CosTab[180 - a + 1]

Sin(deg) == Cos(90 - deg)

\* The float64 NaN.
NaN == -999999

\* math.Acos, in whole degrees: NaN outside [-1, 1].
Acos(x) ==
    IF x > 1000 \/ x < -1000 THEN NaN
    ELSE CHOOSE deg \in 0..180 : Cos(deg) <= x /\ (deg = 0 \/ Cos(deg - 1) > x)

\* hourAngle: Acos(cos(angle) / (cos(lat) cos(decl)) - tan(lat) tan(decl))
hourAngle(angle, decl, lat) ==
    Acos((Cos(angle) * 1000 * 1000) \div (Cos(lat) * Cos(decl))
           - (Sin(lat) * Sin(decl) * 1000) \div (Cos(lat) * Cos(decl)))

\* The dates the Solar Calculator is applied to: the tests' two dates, an
\* equinox and a solstice.
SunDates == {<<2020, 1, 1>>, <<2020, 3, 20>>, <<2020, 6, 21>>, <<2022, 1, 1>>}

\* sunDeclination at the Julian century of the date's solar noon, in whole
\* degrees (-23.02, 0.14, 23.44, -22.98).
sunDeclination(dt) ==
    IF dt = <<2020, 3, 20>> THEN 0
    ELSE IF dt = <<2020, 6, 21>> THEN 23
    ELSE -23

\* equationOfTime at the same Julian century, in whole minutes
\* (-3.33, -7.30, -1.91, -3.56).
equationOfTime(dt) ==
    IF dt = <<2020, 1, 1>> THEN -3
    ELSE IF dt = <<2020, 3, 20>> THEN -7
    ELSE IF dt = <<2020, 6, 21>> THEN -2
    ELSE -4

\* The builds: what time.Duration(offset) gives for a NaN offset depends on
\* the implementation (the Go specification leaves the conversion of a float
\* that is no integer value open): math.MinInt64 nanoseconds, in minutes, on
\* amd64, and 0 on arm64.
Builds == {"amd64", "arm64"}

MinDuration == -153722867

DurationOf(offset, build) ==
    IF offset # NaN THEN offset
    ELSE IF build = "amd64" THEN MinDuration ELSE 0

\* utcMinutesToTime: d.Add(time.Duration(offset)); whole minutes stay as they
\* are when rounded to seconds.
utcMinutesToTime(minutes, dt, build) == Midnight(dt) + DurationOf(minutes, build)

\* calcTimeAtSunAngle.  f is the closure; both passes evaluate it within the
\* same day, where the declination and the equation of time are those above.
calcTimeAtSunAngle(dt, rising, angle, lat, lng, build) ==
    LET f == LET ha == hourAngle(angle, sunDeclination(dt), lat)
                 a == IF rising THEN ha ELSE 0 - ha
             IN  IF ha = NaN THEN NaN
                 ELSE 720 + 4 * (lng - a) - equationOfTime(dt)
    IN  utcMinutesToTime(f, dt, build)

\* The inputs of calcTimeAtSunAngle: 91 stands for 90.833 (sunrise, sunset),
\* 96 is civil twilight, which NowIsDusk uses.
Angles == {91, 96}
Lats == {0, 22, 60, 80}
Lngs == {-122, 0, 15}

\* r.lat != 0 && r.lng != 0
UseSunTimes(lat, lng) == lat # 0 /\ lng # 0

isSameDay(d1, d2) == d1 = d2

\* The zero time.Time of regelwerk.currDate.
ZeroDate == <<1, 1, 1>>

\* The local hours at which NowIsDusk is called.
Hours == {3, 6, 7, 12, 18, 19, 22}

\* NowIsDusk at ts = hour h of date dt, with the cache c (currDate, sunrise,
\* sunset): the cache after the call, and the answer.
NowIsDuskAt(c, dt, h) ==
    LET ts == Midnight(dt) + 60 * h
        fresh == isSameDay(c.currDate, dt)
        sunrise == IF fresh THEN c.sunrise
                   ELSE calcTimeAtSunAngle(dt, TRUE, 96, c.lat, c.lng, c.build)
        sunset == IF fresh THEN c.sunset
                  ELSE calcTimeAtSunAngle(dt, FALSE, 96, c.lat, c.lng, c.build)
    IN  IF UseSunTimes(c.lat, c.lng)
        THEN [c EXCEPT !.currDate = dt, !.sunrise = sunrise, !.sunset = sunset,
                       !.now = ts, !.date = dt, !.hour = h, !.calls = 1,
                       !.ret = (ts < sunrise \/ ts > sunset)]
        ELSE [c EXCEPT !.now = ts, !.date = dt, !.hour = h, !.calls = 1,
                       !.ret = (h >= 19 \/ h < 7)]

\* julianDay is called for a date.
JulianDayCall ==
    /\ calc.op = "date"
    /\ calc' = [op |-> "jd", date |-> calc.date,
                jd |-> julianDay(calc.date[1], calc.date[2], calc.date[3]),
                next |-> LET n == NextDate(calc.date) IN julianDay(n[1], n[2], n[3])]
    /\ UNCHANGED pvars

\* calcTimeAtSunAngle is called for rising and for setting, as
\* TestSunriseSunset and NowIsDusk do.
SunAngleCall ==
    /\ calc.op = "angle"
    /\ calc' = [calc EXCEPT
                  !.op = "times",
                  !.rise = calcTimeAtSunAngle(calc.date, TRUE, calc.angle, calc.lat,
                                              calc.lng, calc.build),
                  !.set = calcTimeAtSunAngle(calc.date, FALSE, calc.angle, calc.lat,
                                             calc.lng, calc.build)]
    /\ UNCHANGED pvars

\* NowIsDusk is called at a later moment.
NowIsDuskCall ==
    /\ calc.op = "dusk"
    /\ \E dt \in SunDates, h \in Hours :
          /\ Midnight(dt) + 60 * h > calc.now
          /\ calc' = NowIsDuskAt(calc, dt, h)
    /\ UNCHANGED pvars

InitSun ==
    /\ InitRegelwerk
    /\ \/ \E dt \in Dates : calc = [op |-> "date", date |-> dt]
       \/ \E dt \in SunDates, a \in Angles, lat \in Lats, lng \in Lngs, b \in Builds :
             calc = [op |-> "angle", date |-> dt, angle |-> a, lat |-> lat,
                     lng |-> lng, build |-> b, rise |-> 0, set |-> 0]
       \/ \E lat \in {0, 22}, lng \in {0, 15}, b \in Builds :
             calc = [op |-> "dusk", lat |-> lat, lng |-> lng, build |-> b,
                     currDate |-> ZeroDate, sunrise |-> 0, sunset |-> 0,
                     now |-> 0, date |-> ZeroDate, hour |-> 0, calls |-> 0,
                     ret |-> FALSE]

NextSun == JulianDayCall \/ SunAngleCall \/ NowIsDuskCall

SpecSun == InitSun /\ [][NextSun]_vars

-----------------------------------------------------------------------------
(* Properties *)

ContactOpen(dk) == Report("contact", "false", "", dk)
ContactClosed == Report("contact", "true", "", FALSE)
MotionActive(dk) == Report("motion", "true", "", dk)

\* The commands published so far that set the switch to st.
Sent(st) == {i \in 1..Len(cmds) : cmds[i].state = st}

\* The OFF commands published for instance id.
OffFor(id) == {i \in 1..Len(cmds) : cmds[i].state = "OFF" /\ cmds[i].tm = id}

\* The handler has run the handlers of a decoded report and is about to return.
Handled == hpc = "unlock" /\ ~DecodeErr(cur)

\* C1: for every Timer instance, whatever the interleaving of its primary and
\* its expiry callback, handleTimer runs at most once and at most one OFF
\* command is published for the instance.
C1_FiresAtMostOnce ==
    \A id \in TmIds : tm[id].runs <= 1 /\ Cardinality(OffFor(id)) <= 1

\* C1 witness: both callbacks of one instance ran; the expiry callback took
\* the latch and finished, the primary callback lost the CompareAndSwap.
C1_Witness ==
    \E id \in TmIds :
        /\ cb[id]["exp"] = "done"
        /\ cb[id]["t"] = "lost"
        /\ tm[id].runs = 1
        /\ Cardinality(OffFor(id)) = 1

\* C2: when a switch report carrying action = "single_right" has been
\* handled, neither a "contact" nor a "motion" Timer is left in the registry.
C2_OverrideDestroysBoth ==
    (Handled /\ cur.dev = "switch" /\ getMapValue(cur) = "single_right")
        => (timers["contact"] = NoTimer /\ timers["motion"] = NoTimer)

\* C3: when the contact opens while there is no "contact" Timer and
\* StopTimer("motion") finds a "motion" Timer, the handler destroys the
\* "motion" Timer, registers a dormant "contact" Timer and starts no ON command.
C3_ConversionSendsNoOn ==
    (Handled /\ cur.dev = "contact" /\ changed /\ cur.attr = "false"
             /\ pre.timers["contact"] = NoTimer /\ t2 # NoTimer)
        => /\ timers["motion"] = NoTimer
           /\ timers["contact"] # NoTimer
           /\ tm[timers["contact"]].t = "stopped"
           /\ tm[timers["contact"]].fired = 0
           /\ onSpawned = 0

\* The report being handled carries the state the device already has.
SameStateReport ==
    /\ hpc \notin {"idle", "lock", "decode"}
    /\ ~DecodeErr(cur)
    /\ cur.attr = pre.state

\* C7 as stated: a report whose state attribute equals the stored state gives
\* changed = false, and its handler creates, starts, stops or destroys no
\* Timer and starts no switch command.
C7_SameStateTouchesNothing ==
    SameStateReport => (~changed /\ ~touched /\ onSpawned = 0)

\* C7, amended: a report whose state attribute equals the stored state gives
\* changed = false and never enters handleDeviceChangedEvent; unless it is a
\* switch report carrying action = "single_right" (the manual override of
\* handleDeviceEvent, which runs on every report), its handler creates,
\* starts, stops or destroys no Timer and starts no switch command.
C7_SameStateNoChangeHandler ==
    SameStateReport =>
        /\ ~changed
        /\ hpc \in {"evDC", "evDM", "unlock"}
        /\ ~(cur.dev = "switch" /\ getMapValue(cur) = "single_right")
              => (hpc = "unlock" /\ ~touched /\ onSpawned = 0)

\* C7 witness: contact open is reported again while the "contact" session it
\* opened is there, and the report has been handled.
C7_Witness ==
    /\ Handled
    /\ cur = ContactOpen(TRUE)
    /\ pre.state = "false"
    /\ timers["contact"] # NoTimer

\* C8: the self-removal at the end of a callback changes the registry only
\* where it holds the callback's own instance; an instance registered under
\* the same name after a destroy stays registered.
C8_RemovesOnlyItself ==
    [][\A id \in TmIds, k \in Kinds :
          (cb[id][k] = "remove" /\ cb'[id][k] = "done")
              => \A n \in Names : timers[n] # id => timers'[n] = timers[n]]_vars

\* C8 witness: a callback's self-removal found a newer instance registered
\* under its name, and that instance is still registered.
C8_Witness ==
    \E id \in TmIds : tm[id].spared /\ timers[tm[id].name] = id

\* C9: no switch command is published by a goroutine that holds regelwerk.mu.
C9_NoCommandUnderLock ==
    \A i \in 1..Len(cmds) : ~cmds[i].locked

\* The handler has returned from, or is about to return from, the last report
\* of hist.
LastHandled == hpc \in {"unlock", "idle"}

\* The ON commands started so far, published or not.
OnStarted == Cardinality(pendingOn) + Cardinality(Sent("ON"))

C4_Opened == hist = <<ContactOpen(TRUE)>>
C4_Closed == hist = <<ContactOpen(TRUE), ContactClosed>>

\* C4: from the initial state (no Timers, switch OFF) at dusk: after contact
\* open has been handled one ON is started and a dormant "contact" Timer is
\* registered; after the following contact closed has been handled that
\* Timer's countdown is started; and unless another report arrives, one ON and
\* one OFF end up published and no "contact" Timer is left.
C4_ContactScenario ==
    /\ [](C4_Opened /\ LastHandled =>
            /\ OnStarted = 1
            /\ Sent("OFF") = {}
            /\ timers["contact"] = 1
            /\ tm[1].t = "stopped" /\ tm[1].fired = 0 /\ cb[1]["t"] = "idle")
    /\ [](C4_Closed /\ LastHandled =>
            /\ OnStarted = 1
            /\ (tm[1].t = "armed" \/ cb[1]["t"] # "idle")
            /\ Cardinality(Sent("OFF")) <= 1)
    /\ (C4_Closed ~> (~C4_Closed
                      \/ (/\ Cardinality(Sent("ON")) = 1
                          /\ Cardinality(Sent("OFF")) = 1
                          /\ Cardinality(OffFor(1)) = 1
                          /\ timers["contact"] = NoTimer)))

\* C4 witness: the scenario ran to its end: open, closed, the countdown
\* elapsed, ON then OFF published, the registry empty.
C4_Witness ==
    /\ C4_Closed
    /\ cb[1]["t"] = "done"
    /\ Cardinality(Sent("ON")) = 1
    /\ Cardinality(Sent("OFF")) = 1
    /\ timers["contact"] = NoTimer

C5_Active == hist = <<MotionActive(TRUE)>>

LockOrder ==
    /\ hpc = "lock" => timersMu # H
    /\ \A id \in TmIds, k \in Kinds : cb[id][k] = "lock" => timersMu # <<id, k>>

\* C10: no goroutine asks for regelwerk.mu while it holds timersMu, and every
\* handler and every callback that starts finishes: from some moment on the
\* handler is back waiting for reports and no callback is under way.
C10_NoDeadlock ==
    /\ []LockOrder
    /\ <>[](/\ hpc = "idle"
            /\ \A id \in TmIds, k \in Kinds : cb[id][k] \in {"idle", "done", "lost"})

\* C10 witness: the handler holds regelwerk.mu and waits for timersMu, which a
\* callback holds for its self-removal.
C10_Witness ==
    \E id \in TmIds, k \in Kinds :
        /\ mu = H
        /\ hpc \in CallSites
        /\ timersMu = <<id, k>>
        /\ cb[id][k] = "remove"

\* An AddTimer body runs for name n (inside AddTimer or AddTimerWithExpiry).
AddTimerStep(n) ==
    /\ hpc \in {"tmAdd", "tmAddExp"}
    /\ cur.dev = n
    /\ timersMu = H
    /\ hpc' # hpc

\* C6: the registry maps a name to at most one Timer, an instance created for
\* that name; AddTimer for a name that has a Timer returns nil and leaves the
\* registry as it is, and AddTimerWithExpiry then arms no expiry timer: the
\* rejected instance has no countdown at all.
C6_AddTimerKeepsExisting ==
    /\ [](\A n \in Names :
            timers[n] # NoTimer => (timers[n] < nextTm /\ tm[timers[n]].name = n))
    /\ [][\A n \in Names :
            (AddTimerStep(n) /\ timers[n] # NoTimer)
                => /\ timers' = timers
                   /\ added' = NoTimer
                   /\ tm'[nextTm].t = "stopped" /\ tm'[nextTm].expT = "nil"]_vars
    /\ [][(hpc = "tmAttach" /\ hpc' = "idle" /\ added = NoTimer) => tm' = tm]_vars

\* C6 witness: AddTimerWithExpiry was called for a name that had a Timer and
\* has returned: nil from AddTimer, the older instance still registered, the
\* newer one without expiry timer.
C6_Witness ==
    \E n \in Names :
        /\ hpc = "idle"
        /\ cur.dev = n
        /\ added = NoTimer
        /\ nextTm = 3
        /\ tm[1].name = n /\ tm[2].name = n
        /\ timers[n] = 1
        /\ tm[1].expT = "armed"
        /\ tm[2].expT = "nil"

\* C11: once the handler of a single-press switch report has destroyed a Timer
\* instance, no OFF command is published for that instance, also when its
\* countdown or expiry had already elapsed when the override was handled.
C11_OverrideDiscardsOff ==
    \A i \in 1..Len(cmds) : cmds[i].state = "OFF" => ~cmds[i].late

\* The report being handled is decoded and its state attribute has another
\* type than the device's stored state had when the handler started.
OtherKindReport ==
    /\ hpc \notin {"idle", "lock", "decode"}
    /\ ~DecodeErr(cur)
    /\ KindOf(cur.attr) # KindOf(pre.state)

\* C12: the type (boolean or string) of every device's stored state stays the
\* one it was registered with, whatever reports arrive and timers fire; a
\* report whose state attribute has another type gives changed = false and
\* leaves the stored state as it was.
C12_StateKindFixed ==
    /\ \A d \in DOMAIN InitDevices : KindOf(state[d]) = KindOf(InitDevices[d])
    /\ KindOf(state["motion"]) = KindOf(InitMotion)
    /\ OtherKindReport => (~changed /\ state[cur.dev] = pre.state)

\* C12 witness: the contact device, whose state is a boolean, reported the
\* string "ON"; the report has been handled.
C12_Witness ==
    /\ Handled
    /\ cur.dev = "contact" /\ cur.attr = "ON"
    /\ OtherKindReport
    /\ state["contact"] \in {"true", "false"}

\* The report in hand cannot be decoded or lacks the state attribute.
BadReport == cur.attr \in {Missing, Undecodable}

\* DecodePayload has been called for such a report.
ErrReport == hpc \notin {"idle", "lock", "decode"} /\ BadReport

\* C13: a report that cannot be decoded or lacks the device's state attribute
\* is dropped: the handler goes from DecodePayload straight to its return,
\* neither handleDeviceEvent nor handleDeviceChangedEvent runs, and the step
\* leaves the device states, the registry and the commands as they are; so a
\* switch report with action = "single_right" but no state attribute destroys
\* no Timer.
C13_ErrorDropsReport ==
    /\ [](ErrReport =>
            /\ hpc = "unlock"
            /\ ~changed /\ ~touched /\ onSpawned = 0
            /\ state[cur.dev] = pre.state)
    /\ [][(hpc = "decode" /\ BadReport /\ hpc' # hpc)
            => (/\ hpc' = "unlock"
                /\ UNCHANGED <<state, timers, tm, nextTm, cmds, pendingOn,
                               overridden>>)]_vars

\* C13 witness: a switch report with action = "single_right" and no state
\* attribute has been handled while a "contact" Timer exists; the Timer is
\* still registered.
C13_Witness ==
    /\ ErrReport
    /\ cur.dev = "switch" /\ cur.attr = Missing
    /\ getMapValue(cur) = "single_right"
    /\ pre.timers["contact"] # NoTimer
    /\ timers["contact"] = pre.timers["contact"]

\* The handler runs the body of StopTimer(n).
StopTimerStep(n) ==
    /\ timersMu = H
    /\ hpc' # hpc
    /\ \/ n = "contact" /\ hpc = "coSC"
       \/ n = "motion" /\ hpc \in {"coSM", "maSM"}

\* C15: StopTimer(name) on a registered Timer stops its primary countdown and
\* nothing else: the Timer stays registered, its latch and its expiry timer
\* are as before; on an absent name it returns nil and changes nothing.  So
\* the expiry timer of a registered "motion" Timer stays armed, paused or not,
\* until it elapses.
C15_StopTimerOnlyPrimary ==
    /\ [][\A n \in Names : StopTimerStep(n) =>
            /\ timers' = timers
            /\ nextTm' = nextTm
            /\ \A id \in TmIds :
                  /\ tm'[id].expT = tm[id].expT
                  /\ tm'[id].fired = tm[id].fired
                  /\ tm'[id].t = IF id = timers[n] THEN "stopped" ELSE tm[id].t
            /\ timers[n] = NoTimer =>
                  /\ tm' = tm
                  /\ hpc = "coSM" => t2' = NoTimer
                  /\ hpc' \in {"coSM", "coAdd", "maAdd", "unlock"}
                  /\ ~touched']_vars
    /\ [](\A id \in TmIds :
            (timers["motion"] = id /\ tm[id].expT # "nil" /\ cb[id]["exp"] = "idle")
                => tm[id].expT = "armed")

\* C15 witness: motion is detected again while the "motion" Timer counts
\* down; the handler has stopped the countdown, the Timer is still registered
\* and its expiry timer is still armed.
C15_Witness ==
    /\ Handled
    /\ cur.dev = "motion" /\ changed /\ touched
    /\ pre.timers["motion"] # NoTimer
    /\ timers["motion"] = pre.timers["motion"]
    /\ tm[timers["motion"]].t = "stopped"
    /\ tm[timers["motion"]].expT = "armed"

\* C18: a Timer in the registry means its turn-off is still pending: for
\* every registered instance handleTimer has not run and no OFF was published
\* (the consequence of the latch being unset that the handlers rely on when
\* they pause, restart or convert the session they find).
C18_RegisteredMeansPending ==
    \A n \in Names :
        timers[n] # NoTimer =>
            /\ tm[timers[n]].runs = 0
            /\ OffFor(timers[n]) = {}

\* The motion-active report in hand changed the motion state back to true
\* after the expiry callback of instance id had published OFF and reset it.
FreshAfterExpiry(id) ==
    /\ Handled
    /\ cur = MotionActive(TRUE)
    /\ pre.state = "false"
    /\ state["switch"] # "ON"
    /\ tm[id].name = "motion"
    /\ cb[id]["exp"] \in {"tmlock", "remove", "done"}
    /\ OffFor(id) # {}
    /\ id \notin overridden

\* C19: after the expiry callback of a "motion" Timer has published OFF and
\* reset the motion state, a motion-active report handled at dusk with the
\* switch not ON is a change, registers a new "motion" Timer with an expiry
\* timer and starts an ON command, wherever the expiry callback is in its
\* remaining steps.
C19_FreshTriggerAfterExpiry ==
    \A id \in TmIds :
        FreshAfterExpiry(id) =>
            /\ changed
            /\ onSpawned = 1
            /\ timers["motion"] \notin {NoTimer, id}
            /\ tm[timers["motion"]].expT # "nil"

\* C20: every ON command is started by a handler whose report changed the
\* contact to open or the motion to active, for which NowIsDusk answered true
\* and the stored switch state was not ON.
C20_OnOnlyAtDusk ==
    onSpawned > 0 =>
        /\ changed
        /\ cur.dev \in {"contact", "motion"}
        /\ cur.attr = (IF cur.dev = "contact" THEN "false" ELSE "true")
        /\ NowIsDusk
        /\ state["switch"] # "ON"

\* C14: NowIsDusk answers with the fixed window (local hour >= 19 or < 7)
\* exactly when latitude and longitude are both zero; in every other case it
\* answers whether now is before the sunrise or after the sunset of now's date.
C14_FallbackOnlyWhenUnset ==
    (calc.op = "dusk" /\ calc.calls = 1) =>
        calc.ret =
            IF calc.lat = 0 /\ calc.lng = 0
            THEN (calc.hour >= 19 \/ calc.hour < 7)
            ELSE \/ calc.now < calcTimeAtSunAngle(calc.date, TRUE, 96, calc.lat,
                                                  calc.lng, calc.build)
                 \/ calc.now > calcTimeAtSunAngle(calc.date, FALSE, 96, calc.lat,
                                                  calc.lng, calc.build)

\* C16: julianDay gives the Julian day at 0h of the date: 2458849.5 for
\* 2020-01-01 and 2459580.5 for 2022-01-01 (doubled: 4917699, 4919161), and
\* for every date of the years FirstYear..LastYear the value of the next
\* calendar day is greater by exactly 1 (doubled: 2).
C16_JulianDay ==
    calc.op = "jd" =>
        /\ calc.next = calc.jd + 2
        /\ calc.date = <<2020, 1, 1>> => calc.jd = 4917699
        /\ calc.date = <<2022, 1, 1>> => calc.jd = 4919161

\* C16 witness: julianDay was applied to the leap day 2020-02-29, the next
\* day being in March.
C16_Witness ==
    /\ calc.op = "jd"
    /\ calc.date = <<2020, 2, 29>>
    /\ calc.next = calc.jd + 2
    /\ calc.jd = 4917699 + 2 * 59

\* C17: for every date, angle and coordinate the instant calcTimeAtSunAngle
\* gives for rising is earlier than the one it gives for setting.
C17_RiseBeforeSet ==
    calc.op = "times" => calc.rise < calc.set

\* The handler is past DecodePayload, which returned no error.
Ingested == hpc \notin {"idle", "lock", "decode"} /\ ~BadReport

\* C22: when DecodePayload reports changed = true, the device's state is the
\* reported value and its lastUpdated is the instant of that report; when it
\* reports changed = false, the state is the one the handler found and
\* lastUpdated is not the instant of that report.
C22_ChangedUpdatesStateAndStamp ==
    Ingested =>
        IF changed
        THEN /\ state[cur.dev] = cur.attr
             /\ lastUpdated[cur.dev] = nreports
        ELSE /\ state[cur.dev] = pre.state
             /\ lastUpdated[cur.dev] # nreports

\* C24: a "contact" Timer and a "motion" Timer are never both in the registry.
C24_OneSessionAcrossTriggers ==
    ~(timers["contact"] # NoTimer /\ timers["motion"] # NoTimer)

\* C25: the ON command that opened a session is published before the OFF
\* command of that session's Timer: while the ON goroutine of an instance has
\* not published, no OFF of that instance has been published; and once both
\* are published, ON comes first.
C25_OnBeforeOff ==
    \A id \in TmIds :
        /\ id \in pendingOn => OffFor(id) = {}
        /\ \A i \in OffFor(id), j \in Sent("ON") : cmds[j].tm = id => j < i

\* The state of trigger n in which its condition has cleared: the contact
\* closed, no motion.
Cleared(n) == IF n = "contact" THEN "true" ELSE "false"

\* The primary countdown of the Timer registered for n is running.
Counting(n) == timers[n] # NoTimer /\ tm[timers[n]].t = "armed"

\* C23 as stated: in every state, a registered Timer's primary countdown runs
\* only while its trigger's stored state is the cleared one.
C23_CoherentInEveryState ==
    \A n \in Names : Counting(n) => state[n] = Cleared(n)

\* C23: whenever the report handler is not inside its critical section
\* (between r.Lock() and r.Unlock() of handleMqtt), a registered "contact"
\* Timer's primary countdown runs only while the contact state is closed and
\* a registered "motion" Timer's only while the motion state is inactive.
C23_CoherentOutsideHandler ==
    mu # H => \A n \in Names : Counting(n) => state[n] = Cleared(n)

\* C23 witness: the door was opened at dusk and closed again; the handler
\* has returned, and the countdown of the registered "contact" Timer is
\* running while the stored contact state is closed.
C23_Witness ==
    /\ hist = <<ContactOpen(TRUE), ContactClosed>>
    /\ hpc = "idle"
    /\ mu # H
    /\ Counting("contact")
    /\ state["contact"] = "true"
    /\ tm[timers["contact"]].fired = 0

\* C21: under fair scheduling every "motion" Timer the rule engine registers
\* (each is created by AddTimerWithExpiry, with an expiry timer) leaves the
\* registry again, whatever is reported afterwards: whenever a Timer is
\* registered under "motion", a state follows in which none is.  (AddTimer
\* registers only under a free name, so an instance is never replaced while
\* it is registered.)
C21_MotionTimerLeavesRegistry ==
    (timers["motion"] # NoTimer) ~> (timers["motion"] = NoTimer)

\* C21 witness: the motion sensor reported active once and nothing else was
\* reported; the primary countdown never ran, the expiry callback has run
\* and removed the Timer from the registry.
C21_Witness ==
    /\ hist = <<MotionActive(TRUE)>>
    /\ nreports = 1
    /\ tm[1].name = "motion"
    /\ tm[1].expT = "stopped"
    /\ cb[1]["t"] = "idle"
    /\ cb[1]["exp"] = "done"
    /\ timers["motion"] = NoTimer

=============================================================================
